---- MODULE Spec2Model ----
(***************************************************************************)
(* Model of the channel-checker backend (three variants of server.js:      *)
(* src/unnamed/part_000, part_001, part_002).                              *)
(*                                                                         *)
(* Strings that the code parses (URLs, channel identifiers) are sequences  *)
(* of one-character strings, so that the regular expressions of            *)
(* getChannelIdFromAPI are computed and not assumed.  The JavaScript       *)
(* values null, undefined and "" (all falsy) are the empty sequence.       *)
(***************************************************************************)
EXTENDS Integers, Sequences, FiniteSets, Bags, TLC

VARIABLES
    variant,          \* which server file runs
    running,          \* the node process is alive
    channel_details,  \* the table: sequence of rows, in storage order
    inflight,         \* bag of the requests being handled
    arrived,          \* number of requests received so far
    last,             \* the request that finished most recently
    responded,        \* summaries of the finished POSTs that reached the table
    rin,              \* resolver harness: the inputs of one resolution
    rout,             \* resolver harness: its outcome
    userToken,        \* extension, background script: the stored token
    authPending,      \* extension: getAuthToken calls not yet called back
    installs,         \* extension: onInstalled events so far
    clicks,           \* extension: the clicks on the button, in order
    fetches,          \* extension: the requests fetch() has issued, in order
    alerts,           \* extension: the alerts shown, in order
    loaded,           \* page: DOMContentLoaded has fired
    elements,         \* page: the #buttons elements created so far
    buttonsContainer, \* page: the element the listener captured, 0 for null
    observerQueued,   \* page: mutation records wait for the observer
    mutations         \* page: DOM mutations made by the page so far

extVars == <<userToken, authPending, installs, clicks, fetches, alerts>>

domVars == <<loaded, elements, buttonsContainer, observerQueued, mutations>>

vars == <<variant, running, channel_details, inflight, arrived, last,
          responded, rin, rout, extVars, domVars>>

----------------------------------------------------------------------------
(* Bounds *)

\* requests received in one behaviour
MaxReq == 2
\* items in one metadata API response
MaxItems == 2
\* clicks on the extension's button in one behaviour
MaxClicks == 2
\* onInstalled events of the extension in one behaviour
MaxInstalls == 2
\* #buttons elements the page creates in one behaviour
MaxContainers == 2
\* DOM mutations the page makes in one behaviour
MaxMutations == 6

----------------------------------------------------------------------------
(* Characters and literals *)

Lower == {"a","b","c","d","e","f","g","h","i","j","k","l","m",
          "n","o","p","q","r","s","t","u","v","w","x","y","z"}
Upper == {"A","B","C","D","E","F","G","H","I","J","K","L","M",
          "N","O","P","Q","R","S","T","U","V","W","X","Y","Z"}
Digit == {"0","1","2","3","4","5","6","7","8","9"}

\* the character class [a-zA-Z0-9_-]
IdChars == Lower \cup Upper \cup Digit \cup {"_", "-"}

null == <<>>

YoutubeCom == <<"y","o","u","t","u","b","e",".","c","o","m","/">>
LitChannel == YoutubeCom \o <<"c","h","a","n","n","e","l","/">>
LitUser == YoutubeCom \o <<"u","s","e","r","/">>
LitC == YoutubeCom \o <<"c","/">>
LitWatch == YoutubeCom \o <<"w","a","t","c","h","?","v","=">>

----------------------------------------------------------------------------
(* String.prototype.match for a pattern  literal([a-zA-Z0-9_-]+)  *)

\* the literal occurs in s at position i
HasAt(s, i, lit) ==
    /\ i + Len(lit) - 1 <= Len(s)
    /\ \A k \in 1..Len(lit) : s[i + k - 1] = lit[k]

\* the literal occurs at i and is followed by at least one id character
MatchesAt(s, i, lit) ==
    /\ HasAt(s, i, lit)
    /\ i + Len(lit) <= Len(s)
    /\ s[i + Len(lit)] \in IdChars

\* the greedy capture ([a-zA-Z0-9_-]+) starting at position j
Capture(s, j) ==
    LET e == CHOOSE e \in j..Len(s) :
                 /\ \A k \in j..e : s[k] \in IdChars
                 /\ (e = Len(s) \/ s[e + 1] \notin IdChars)
    IN  SubSeq(s, j, e)

Min(S) == CHOOSE x \in S : \A y \in S : x <= y

\* the pattern without the + quantifier: one character is captured
MatchLit_OneChar(s, lit) ==
    LET P == {i \in 1..Len(s) : MatchesAt(s, i, lit)}
    IN  IF P = {} THEN null
        ELSE <<SubSeq(s, Min(P) + Len(lit), Min(P) + Len(lit))>>

\* url.match(/lit([a-zA-Z0-9_-]+)/): null, or the capture groups of the
\* leftmost match
MatchLit(s, lit) ==
    LET P == {i \in 1..Len(s) : MatchesAt(s, i, lit)}
    IN  IF P = {} THEN null
        ELSE <<Capture(s, Min(P) + Len(lit))>>

\* url.match(/youtube\.com\/(user|c)\/([a-zA-Z0-9_-]+)/)
MatchUserOrC(s) ==
    LET P == {i \in 1..Len(s) : MatchesAt(s, i, LitUser) \/ MatchesAt(s, i, LitC)}
    IN  IF P = {} THEN null
        ELSE LET i == Min(P)
             IN  IF MatchesAt(s, i, LitUser)
                 THEN <<"user", Capture(s, i + Len(LitUser))>>
                 ELSE <<"c", Capture(s, i + Len(LitC))>>

----------------------------------------------------------------------------
(* The metadata API as getChannelIdFromAPI sees it *)

\* channel identifiers the metadata API answers with
UC1 == <<"U","C","1">>
UC2 == <<"U","C","2">>

\* one element of data.items: channels items carry the channel in id, videos
\* items carry the video in id and the channel in snippet.channelId
Items == {[id |-> UC1, snippet |-> [channelId |-> UC2]],
          [id |-> UC2, snippet |-> [channelId |-> UC1]]}

ItemSeqs == UNION {[1..n -> Items] : n \in 0..MaxItems}

\* outcome of  fetch(apiURL)  followed by  response.json():
\*   "neterr"   fetch or json() rejects
\*   "noitems"  a JSON body without an items member (an API error object)
\*   "ok"       a JSON body with an items array
Responses ==
    {[kind |-> "neterr", items |-> <<>>], [kind |-> "noitems", items |-> <<>>]}
    \cup {[kind |-> "ok", items |-> it] : it \in ItemSeqs}

Returned(id, calls) == [threw |-> FALSE, channelId |-> id, calls |-> calls]
Threw(calls) == [threw |-> TRUE, channelId |-> null, calls |-> calls]

\* the request issued by fetch: part_000 sends no Authorization header
ApiCall(v, api, param, token) ==
    [api |-> api, param |-> param,
     bearer |-> IF v = "part_000" THEN "" ELSE token]

\* the usernameMatch branch treating a failed lookup as "not found"
LookupUsername_ErrorAsEmpty(v, username, token, resp) ==
    LET calls == <<ApiCall(v, "channels", username, token)>>
    IN  IF resp.kind = "ok" /\ Len(resp.items) > 0
        THEN Returned(resp.items[1].id, calls)
        ELSE Returned(null, calls)

\* else-if branch of usernameMatch
LookupUsername(v, username, token, resp) ==
    LET calls == <<ApiCall(v, "channels", username, token)>>
    IN  IF resp.kind # "ok" THEN Threw(calls)
        ELSE IF Len(resp.items) > 0 THEN Returned(resp.items[1].id, calls)
        ELSE Returned(null, calls)

\* the videos branch reading the item's own id
LookupVideo_ItemId(v, videoId, token, resp) ==
    LET calls == <<ApiCall(v, "videos", videoId, token)>>
    IN  IF resp.kind # "ok" THEN Threw(calls)
        ELSE IF Len(resp.items) > 0 THEN Returned(resp.items[1].id, calls)
        ELSE Returned(null, calls)

\* else-if branch of videoMatch
LookupVideo(v, videoId, token, resp) ==
    LET calls == <<ApiCall(v, "videos", videoId, token)>>
    IN  IF resp.kind # "ok" THEN Threw(calls)
        ELSE IF Len(resp.items) > 0
             THEN Returned(resp.items[1].snippet.channelId, calls)
        ELSE Returned(null, calls)

\* independent ifs: an empty username lookup goes on to the video form
getChannelIdFromAPI_FallThrough(v, url, token, chResp, vidResp) ==
    LET channelMatch == MatchLit(url, LitChannel)
        usernameMatch == MatchUserOrC(url)
        videoMatch == MatchLit(url, LitWatch)
        byName == LookupUsername(v, usernameMatch[2], token, chResp)
    IN  IF Len(channelMatch) > 0 THEN Returned(channelMatch[1], <<>>)
        ELSE IF Len(usernameMatch) > 0 /\ (byName.threw \/ byName.channelId # null)
             THEN byName
        ELSE IF Len(videoMatch) > 0
             THEN LET byVideo == LookupVideo(v, videoMatch[1], token, vidResp)
                  IN  [byVideo EXCEPT !.calls =
                          IF Len(usernameMatch) > 0 THEN byName.calls \o @ ELSE @]
        ELSE IF Len(usernameMatch) > 0 THEN byName
        ELSE Returned(null, <<>>)

\* getChannelIdFromAPI(url, token) where chResp and vidResp are what the
\* channels and the videos endpoints answer
getChannelIdFromAPI(v, url, token, chResp, vidResp) ==
    LET channelMatch == MatchLit(url, LitChannel)
        usernameMatch == MatchUserOrC(url)
        videoMatch == MatchLit(url, LitWatch)
    IN  IF Len(channelMatch) > 0 THEN Returned(channelMatch[1], <<>>)
        ELSE IF Len(usernameMatch) > 0
             THEN LookupUsername(v, usernameMatch[2], token, chResp)
        ELSE IF Len(videoMatch) > 0
             THEN LookupVideo(v, videoMatch[1], token, vidResp)
        ELSE Returned(null, <<>>)

----------------------------------------------------------------------------
(* URLs *)

Https == <<"h","t","t","p","s",":","/","/","w","w","w",".">>
Example == <<"h","t","t","p","s",":","/","/","e","x","a","m","p","l","e",".","c","o","m","/">>

U_channel == Https \o LitChannel \o UC1
U_channelQuery == LitChannel \o <<"U","C","_","-","2","?","a","=","b">>
U_channelNoId == Https \o LitChannel
U_twoChannels == LitChannel \o UC1 \o <<"/">> \o LitChannel \o UC2
U_foreignChannel == Example \o <<"c","h","a","n","n","e","l","/","U","C","1">>
U_user == Https \o LitUser \o <<"b","o","b">>
U_c == Https \o LitC \o <<"b","o","b">>
U_watch == Https \o LitWatch \o <<"v","1">>
U_userAndWatch == LitUser \o <<"b","o","b","?","n","e","x","t","=">> \o LitWatch \o <<"v","1">>
U_watchAndChannel == LitWatch \o <<"v","1","&","r","=">> \o LitChannel \o UC2
U_notYoutube == Example \o <<"n","o","t","-","y","o","u","t","u","b","e">>

\* inputs of the resolver harness
Urls == {U_channel, U_channelQuery, U_channelNoId, U_twoChannels,
         U_foreignChannel, U_user, U_c, U_watch, U_userAndWatch,
         U_watchAndChannel, U_notYoutube}

\* URLs the extension posts in the server model
ReqUrls == {U_channel, U_user, U_notYoutube}

Variants == {"part_000", "part_001", "part_002"}

----------------------------------------------------------------------------
(* Requests *)

\* req.headers.authorization split on ' ': <<>> when the header is absent
NoHeader == <<>>
Authorizations == {NoHeader, <<"Bearer">>, <<"Bearer", "tokAlice">>,
                   <<"Bearer", "tokBob">>, <<"Bearer", "tokForged">>}

\* the ID tokens the identity provider verifies for the audience CLIENT_ID,
\* with the name member of their payload
PayloadName == [tokAlice |-> "Alice", tokBob |-> "Bob"]

\* outcome of the identity provider's part of verifyIdToken
IdpOutcomes == {"reachable", "neterr"}

\* authorization.split(' ')[1]; "" stands for undefined
SplitToken(authorization) ==
    IF Len(authorization) >= 2 THEN authorization[2] ELSE ""

\* channel identifiers a table holds
StoredIds(table) == {table[i].yt_channel_id : i \in 1..Len(table)}

NewRequest(method, authorization, url, alone, table, finished) ==
    [method |-> method, authorization |-> authorization, url |-> url,
     pc |-> "verify", user |-> "", channelId |-> null,
     status |-> 0, message |-> "", rows |-> <<>>,
     \* history of the request, for the properties only
     idp |-> "", idpCalls |-> 0, apiCalls |-> <<>>, lookup |-> "none",
     reads |-> 0, writes |-> 0,
     dbFailed |-> FALSE, solo |-> alone, idsAtArrival |-> StoredIds(table),
     after |-> finished, atQuery |-> <<>>,
     trace |-> <<>>, checked |-> FALSE, idsAtExists |-> {}]

NoRequest == [NewRequest("", NoHeader, null, FALSE, <<>>, {}) EXCEPT !.pc = "none"]

\* res.status(code).json({ message })
Respond(req, code, message) ==
    [req EXCEPT !.pc = "done", !.status = code, !.message = message]

\* what is remembered of a finished POST that had resolved its channel
Summary(req) ==
    [channelId |-> req.channelId, user |-> req.user, status |-> req.status,
     fresh |-> req.channelId \notin req.idsAtArrival, solo |-> req.solo,
     dbFailed |-> req.dbFailed]

IsFinished(req) == req.pc \in {"done", "hung"}

----------------------------------------------------------------------------
(* verifyToken *)

\* the variant checks for a missing token before verifying it
ChecksMissingToken(v) == v \in {"part_000", "part_001"}

\* the OAuth2 client verifyToken uses exists: part_001 refers to a module
\* level  client  that the file never defines (ReferenceError inside try)
ClientDefined(v) == v # "part_001"

\* the try block: verifyIdToken, getPayload, next()
VerifyIdToken(v, req, token, idp) ==
    IF ~ClientDefined(v) THEN Respond(req, 401, "Unauthorized")
    ELSE IF token \in DOMAIN PayloadName /\ idp = "reachable"
         THEN [req EXCEPT !.idpCalls = 1, !.user = PayloadName[token],
                          !.pc = IF req.method = "POST" THEN "resolve"
                                 ELSE "history"]
    ELSE [Respond(req, 401, "Unauthorized") EXCEPT !.idpCalls = 1]

\* the middleware, up to next() or to its response; pc "hung" is a rejected
\* middleware promise: no response is ever sent.  idp is what the identity
\* provider answers if it is asked
verifyToken(v, req0, idp) ==
    LET req == [req0 EXCEPT !.idp = idp]
        token == SplitToken(req.authorization)
    IN  IF ChecksMissingToken(v)
        THEN IF token = ""
             THEN Respond(req, 401, "Authorization header is missing")
             ELSE VerifyIdToken(v, req, token, idp)
        ELSE IF req.authorization = NoHeader
             THEN [req EXCEPT !.pc = "hung"]
             ELSE VerifyIdToken(v, req, token, idp)

----------------------------------------------------------------------------
(* The table channel_details *)

Row(channelId, createdBy) == [yt_channel_id |-> channelId, createdBy |-> createdBy]

\* SELECT * FROM channel_details WHERE yt_channel_id = $1
SelectByChannel(table, channelId) ==
    SelectSeq(table, LAMBDA row : row.yt_channel_id = channelId)

\* the history query without its WHERE clause
SelectByCreator_NoFilter(table, name) == table

\* SELECT * FROM channel_details WHERE createdBy = $1
SelectByCreator(table, name) ==
    SelectSeq(table, LAMBDA row : row.createdBy = name)

\* an INSERT ... ON CONFLICT DO UPDATE: the row of the channel is replaced
InsertRow_Upsert(table, channelId, name) ==
    Append(SelectSeq(table, LAMBDA row : row.yt_channel_id # channelId),
           Row(channelId, name))

\* INSERT INTO channel_details (yt_channel_id, createdBy) VALUES ($1, $2)
InsertRow(table, channelId, name) == Append(table, Row(channelId, name))

----------------------------------------------------------------------------
(* The steps of the handlers, as functions of the request *)

\* what a lookup got: "neterr", "noitems", "empty" or "items"
KindOf(resp) ==
    IF resp.kind # "ok" THEN resp.kind
    ELSE IF Len(resp.items) = 0 THEN "empty" ELSE "items"

\* the answer to the lookup that was issued, "none" without a lookup
LookupGot(calls, chResp, vidResp) ==
    IF calls = <<>> THEN "none"
    ELSE IF calls[1].api = "channels" THEN KindOf(chResp) ELSE KindOf(vidResp)

\* the handler going from the resolution straight to the INSERT
ResolveStep_SkipsExists(v, req, chResp, vidResp) ==
    LET got == getChannelIdFromAPI(v, req.url, SplitToken(req.authorization),
                                   chResp, vidResp)
        called == [req EXCEPT !.apiCalls = got.calls,
                              !.lookup = LookupGot(got.calls, chResp, vidResp)]
    IN  IF got.threw THEN Respond(called, 500, "Internal server error.")
        ELSE IF got.channelId = null
             THEN Respond(called, 400, "Invalid YouTube URL")
        ELSE [called EXCEPT !.channelId = got.channelId, !.pc = "insert"]

\* the handler without the  if (!channelId)  test
ResolveStep_No400(v, req, chResp, vidResp) ==
    LET got == getChannelIdFromAPI(v, req.url, SplitToken(req.authorization),
                                   chResp, vidResp)
        called == [req EXCEPT !.apiCalls = got.calls,
                              !.lookup = LookupGot(got.calls, chResp, vidResp)]
    IN  IF got.threw THEN Respond(called, 500, "Internal server error.")
        ELSE [called EXCEPT !.channelId = got.channelId, !.pc = "exists"]

\* POST /checkChannel: getChannelIdFromAPI and the 400 test
ResolveStep(v, req, chResp, vidResp) ==
    LET got == getChannelIdFromAPI(v, req.url, SplitToken(req.authorization),
                                   chResp, vidResp)
        called == [req EXCEPT !.apiCalls = got.calls,
                              !.lookup = LookupGot(got.calls, chResp, vidResp)]
    IN  IF got.threw THEN Respond(called, 500, "Internal server error.")
        ELSE IF got.channelId = null
             THEN Respond(called, 400, "Invalid YouTube URL")
        ELSE [called EXCEPT !.channelId = got.channelId, !.pc = "exists"]

\* the handler going on to the INSERT when the SELECT fails
ExistsStep_SwallowsError(req, table, fails) ==
    IF fails THEN [req EXCEPT !.dbFailed = TRUE, !.pc = "insert"]
    ELSE IF Len(SelectByChannel(table, req.channelId)) > 0
         THEN Respond([req EXCEPT !.reads = 1], 200, "Duplicate channel ID found.")
    ELSE [req EXCEPT !.reads = 1, !.pc = "insert"]

\* the handler without the duplicate test
ExistsStep_NoDuplicateTest(req, table, fails) ==
    IF fails
    THEN Respond([req EXCEPT !.dbFailed = TRUE], 500, "Internal server error.")
    ELSE [req EXCEPT !.reads = 1, !.pc = "insert"]

\* POST /checkChannel: the SELECT and the duplicate test
ExistsStep(req, table, fails) ==
    IF fails
    THEN Respond([req EXCEPT !.dbFailed = TRUE], 500, "Internal server error.")
    ELSE IF Len(SelectByChannel(table, req.channelId)) > 0
         THEN Respond([req EXCEPT !.reads = 1], 200, "Duplicate channel ID found.")
    ELSE [req EXCEPT !.reads = 1, !.pc = "insert"]

\* POST /checkChannel: the response after the INSERT
InsertStep(req, fails) ==
    IF fails
    THEN Respond([req EXCEPT !.dbFailed = TRUE], 500, "Internal server error.")
    ELSE Respond([req EXCEPT !.writes = 1], 201, "Channel ID inserted successfully.")

\* GET /influencerHistory
HistoryStep(req, table, fails) ==
    IF fails
    THEN Respond([req EXCEPT !.dbFailed = TRUE], 500, "Internal server error.")
    ELSE [Respond(req, 200, "") EXCEPT !.rows = SelectByCreator(table, req.user),
                                       !.reads = 1, !.atQuery = table]

----------------------------------------------------------------------------
(* The extension: background script and button click handler *)

\* JavaScript values a token variable holds
JsNull == [t |-> "null"]
JsUndefined == [t |-> "undefined"]
JsString(str) == [t |-> "string", s |-> str]

\* the tokens chrome.identity.getAuthToken passes to its callback:
\* an access token, or undefined when the user did not grant one
GrantedTokens == {"tokAlice", "tokBob"}
AuthResults == {JsString(tok) : tok \in GrantedTokens} \cup {JsUndefined}

\* if (value)
Truthy(value) == value.t = "string" /\ value.s # ""

\* `${value}`
TemplateString(value) == IF value.t = "string" THEN value.s ELSE value.t

\* window.location.href at the time of a click
Hrefs == {U_channel, U_watch}

AuthFailed == "Authorization failed. Please sign in."
FetchOutcomes == {"ok", "notok", "threw"}

\* let userToken = null; with nothing called, clicked or shown
ExtensionFresh ==
    /\ userToken = JsNull
    /\ authPending = 0
    /\ installs = 0
    /\ clicks = <<>>
    /\ fetches = <<>>
    /\ alerts = <<>>

\* the click listener up to chrome.runtime.sendMessage({ type: 'getToken' })
NewClick(id, url) ==
    [id |-> id, url |-> url, pc |-> "asked", stored |-> JsNull,
     response |-> [token |-> JsUndefined]]

\* the callback that never tests the token
ClickCallback_NoTokenTest(c) ==
    [pc |-> "fetching",
     fetch |-> <<[method |-> "POST", path |-> "/checkChannel",
                  authorization |-> <<"Bearer", TemplateString(c.response.token)>>,
                  url |-> c.url, click |-> c.id]>>,
     alert |-> <<>>]

\* the callback of sendMessage for click c, up to the fetch or the alert
ClickCallback(c) ==
    IF Truthy(c.response.token)
    THEN [pc |-> "fetching",
          fetch |-> <<[method |-> "POST", path |-> "/checkChannel",
                       authorization |->
                           <<"Bearer", TemplateString(c.response.token)>>,
                       url |-> c.url, click |-> c.id]>>,
          alert |-> <<>>]
    ELSE [pc |-> "done", fetch |-> <<>>,
          alert |-> <<[click |-> c.id, text |-> AuthFailed]>>]

\* the alert after the fetch has settled
FetchAlert(outcome) ==
    CASE outcome = "ok" -> "Success"
      [] outcome = "notok" -> "Error"
      [] OTHER -> "Failed to send URL to backend."

----------------------------------------------------------------------------
(* The page: the #buttons containers and injectCustomButton *)

\* an element variable that holds null
NoElement == 0

\* a #buttons element the page has just created and put in the document
NewContainer == [attached |-> TRUE, buttons |-> 0]

\* the #buttons elements that are in the document
InDocument(els) == {e \in 1..Len(els) : els[e].attached}

\* document.querySelector('#buttons'): the first one in document order,
\* an order the page decides, or null
QueryButtons(els) ==
    IF InDocument(els) = {} THEN {NoElement} ELSE InDocument(els)

\* document.querySelector('#custom-extension-button') is not null
HasCustomButton(els) == \E e \in InDocument(els) : els[e].buttons > 0

\* injectCustomButton runs: does it append a button
Injects(container, els) == container # NoElement /\ ~HasCustomButton(els)

\* injectCustomButton with the captured container: the elements afterwards
injectCustomButton(container, els) ==
    IF Injects(container, els)
    THEN [els EXCEPT ![container].buttons = @ + 1]
    ELSE els

\* the document before DOMContentLoaded, with no #buttons element yet
DocumentFresh ==
    /\ loaded = FALSE
    /\ elements = <<>>
    /\ buttonsContainer = NoElement
    /\ observerQueued = FALSE
    /\ mutations = 0

----------------------------------------------------------------------------
(* Actions of the server *)

HarnessIdle == UNCHANGED <<rin, rout, extVars, domVars>>

InFlight == BagToSet(inflight)

\* request req has made a step and is now req2
Step(req, req2) ==
    IF IsFinished(req2)
    THEN /\ inflight' = inflight (-) SetToBag({req})
         /\ last' = req2
         /\ responded' = IF req2.channelId # null
                         THEN responded \cup {Summary(req2)}
                         ELSE responded
    ELSE /\ inflight' = (inflight (-) SetToBag({req})) (+) SetToBag({req2})
         /\ UNCHANGED <<last, responded>>

\* the request has run the step called name
Did(req, name) == [req EXCEPT !.trace = Append(@, name)]

\* the request has run its SELECT on the table, which answered if ~fails
Saw(req, table, fails) ==
    IF fails THEN req
    ELSE [req EXCEPT !.checked = TRUE, !.idsAtExists = StoredIds(table)]

\* the requests in flight are no longer handled alone
NotSolo(bag) ==
    LET S == BagToSet(bag)
        T == {[req EXCEPT !.solo = FALSE] : req \in S}
    IN  [t \in T |-> LET P == {req \in S : [req EXCEPT !.solo = FALSE] = t}
                         Sum[Q \in SUBSET P] ==
                             IF Q = {} THEN 0
                             ELSE LET q == CHOOSE q \in Q : TRUE
                                  IN  bag[q] + Sum[Q \ {q}]
                     IN  Sum[P]]

\* a request reaches the server
Arrive ==
    /\ running
    /\ arrived < MaxReq
    /\ arrived' = arrived + 1
    /\ \E method \in {"POST", "GET"}, authorization \in Authorizations :
         \E url \in IF method = "POST" THEN ReqUrls ELSE {null} :
            inflight' = NotSolo(inflight) (+)
                SetToBag({NewRequest(method, authorization, url,
                                     InFlight = {}, channel_details, responded)})
    /\ UNCHANGED <<variant, running, channel_details, last, responded>>
    /\ HarnessIdle

\* the middleware runs for a request
Verify ==
    /\ running
    /\ \E req \in InFlight, idp \in IdpOutcomes :
         /\ req.pc = "verify"
         /\ LET req2 == Did(verifyToken(variant, req, idp), "verify")
            IN  /\ Step(req, req2)
                \* an unhandled rejection ends the process or not, depending
                \* on the node version: part_002 installs no handler for it
                /\ IF req2.pc = "hung"
                   THEN running' \in BOOLEAN
                   ELSE running' = running
    /\ UNCHANGED <<variant, channel_details, arrived>>
    /\ HarnessIdle

Resolve ==
    /\ running
    /\ \E req \in InFlight, resp \in Responses :
         /\ req.pc = "resolve"
         /\ Step(req, Did(ResolveStep(variant, req, resp, resp), "resolve"))
    /\ UNCHANGED <<variant, running, channel_details, arrived>>
    /\ HarnessIdle

Exists ==
    /\ running
    /\ \E req \in InFlight, fails \in BOOLEAN :
         /\ req.pc = "exists"
         /\ Step(req, Did(Saw(ExistsStep(req, channel_details, fails),
                               channel_details, fails), "exists"))
    /\ UNCHANGED <<variant, running, channel_details, arrived>>
    /\ HarnessIdle

Insert ==
    /\ running
    /\ \E req \in InFlight, fails \in BOOLEAN :
         /\ req.pc = "insert"
         /\ Step(req, Did(InsertStep(req, fails), "insert"))
         /\ channel_details' =
                IF fails THEN channel_details
                ELSE InsertRow(channel_details, req.channelId, req.user)
    /\ UNCHANGED <<variant, running, arrived>>
    /\ HarnessIdle

History ==
    /\ running
    /\ \E req \in InFlight, fails \in BOOLEAN :
         /\ req.pc = "history"
         /\ Step(req, Did(HistoryStep(req, channel_details, fails), "history"))
    /\ UNCHANGED <<variant, running, channel_details, arrived>>
    /\ HarnessIdle

HarnessOff == [url |-> null, token |-> "",
               chResp |-> [kind |-> "neterr", items |-> <<>>],
               vidResp |-> [kind |-> "neterr", items |-> <<>>]]
NotCalled == [state |-> "idle", threw |-> FALSE, channelId |-> null, calls |-> <<>>]

Init ==
    /\ variant \in Variants
    /\ running = TRUE
    /\ channel_details = <<>>
    /\ inflight = EmptyBag
    /\ arrived = 0
    /\ last = NoRequest
    /\ responded = {}
    /\ rin = HarnessOff
    /\ rout = NotCalled
    /\ ExtensionFresh
    /\ DocumentFresh

Next ==
    \/ Arrive
    \/ Verify
    \/ Resolve
    \/ Exists
    \/ Insert
    \/ History

Spec == Init /\ [][Next]_vars

----------------------------------------------------------------------------
(* getChannelIdFromAPI on its own: one call on inputs drawn at the start *)

ServerIdle ==
    UNCHANGED <<variant, running, channel_details, inflight, arrived, last,
                responded>>

InitResolve ==
    /\ variant \in Variants
    /\ running = TRUE
    /\ channel_details = <<>>
    /\ inflight = EmptyBag
    /\ arrived = 0
    /\ last = NoRequest
    /\ responded = {}
    /\ rin \in [url : Urls, token : {"tokAlice"},
                chResp : Responses, vidResp : Responses]
    /\ rout = NotCalled
    /\ ExtensionFresh
    /\ DocumentFresh

CallResolver ==
    /\ rout.state = "idle"
    /\ LET got == getChannelIdFromAPI(variant, rin.url, rin.token,
                                      rin.chResp, rin.vidResp)
       IN  rout' = [state |-> "called", threw |-> got.threw,
                    channelId |-> got.channelId, calls |-> got.calls]
    /\ UNCHANGED rin
    /\ ServerIdle
    /\ UNCHANGED <<extVars, domVars>>

NextResolve == CallResolver

SpecResolve == InitResolve /\ [][NextResolve]_vars

----------------------------------------------------------------------------
(* Actions of the extension *)

ServerOff ==
    UNCHANGED <<variant, running, channel_details, inflight, arrived, last,
                responded, rin, rout, domVars>>

\* chrome.runtime.onInstalled fires: getAuthToken is called
Installed ==
    /\ installs < MaxInstalls
    /\ installs' = installs + 1
    /\ authPending' = authPending + 1
    /\ UNCHANGED <<userToken, clicks, fetches, alerts>>
    /\ ServerOff

\* the callback of getAuthToken runs
AuthCallback ==
    /\ authPending > 0
    /\ \E token \in AuthResults : userToken' = token
    /\ authPending' = authPending - 1
    /\ UNCHANGED <<installs, clicks, fetches, alerts>>
    /\ ServerOff

\* the background script is loaded again (the browser restarts): its first
\* statement runs, pending callbacks are gone, onInstalled does not fire
Reload ==
    /\ userToken # JsNull \/ authPending > 0
    /\ userToken' = JsNull
    /\ authPending' = 0
    /\ UNCHANGED <<installs, clicks, fetches, alerts>>
    /\ ServerOff

\* the button is clicked
Click ==
    /\ Len(clicks) < MaxClicks
    /\ \E url \in Hrefs :
          clicks' = Append(clicks, NewClick(Len(clicks) + 1, url))
    /\ UNCHANGED <<userToken, authPending, installs, fetches, alerts>>
    /\ ServerOff

\* the background's onMessage listener answers a getToken message
GetToken ==
    /\ \E i \in 1..Len(clicks) :
          /\ clicks[i].pc = "asked"
          /\ clicks' = [clicks EXCEPT ![i].pc = "replied",
                                      ![i].stored = userToken,
                                      ![i].response = [token |-> userToken]]
    /\ UNCHANGED <<userToken, authPending, installs, fetches, alerts>>
    /\ ServerOff

\* the callback of sendMessage runs with the response
Callback ==
    /\ \E i \in 1..Len(clicks) :
          /\ clicks[i].pc = "replied"
          /\ LET did == ClickCallback(clicks[i])
             IN  /\ clicks' = [clicks EXCEPT ![i].pc = did.pc]
                 /\ fetches' = fetches \o did.fetch
                 /\ alerts' = alerts \o did.alert
    /\ UNCHANGED <<userToken, authPending, installs>>
    /\ ServerOff

\* the fetch of a click settles and its result is alerted
Settle ==
    /\ \E i \in 1..Len(clicks), outcome \in FetchOutcomes :
          /\ clicks[i].pc = "fetching"
          /\ clicks' = [clicks EXCEPT ![i].pc = "done"]
          /\ alerts' = Append(alerts, [click |-> i, text |-> FetchAlert(outcome)])
    /\ UNCHANGED <<userToken, authPending, installs, fetches>>
    /\ ServerOff

InitExt ==
    /\ variant = "part_000"
    /\ running = TRUE
    /\ channel_details = <<>>
    /\ inflight = EmptyBag
    /\ arrived = 0
    /\ last = NoRequest
    /\ responded = {}
    /\ rin = HarnessOff
    /\ rout = NotCalled
    /\ ExtensionFresh
    /\ DocumentFresh

NextExt ==
    \/ Installed
    \/ AuthCallback
    \/ Reload
    \/ Click
    \/ GetToken
    \/ Callback
    \/ Settle

SpecExt == InitExt /\ [][NextExt]_vars

----------------------------------------------------------------------------
(* Actions of the page *)

PageOff ==
    UNCHANGED <<variant, running, channel_details, inflight, arrived, last,
                responded, rin, rout, extVars>>

\* the page changes the child list of a node under document.body: the
\* observer, once it exists, gets a record
Mutated ==
    /\ mutations < MaxMutations
    /\ mutations' = mutations + 1
    /\ observerQueued' = loaded
    /\ UNCHANGED <<loaded, buttonsContainer>>

\* the DOMContentLoaded listener: capture #buttons, inject once, then
\* start to observe
DOMContentLoaded ==
    /\ ~loaded
    /\ loaded' = TRUE
    /\ \E container \in QueryButtons(elements) :
          /\ buttonsContainer' = container
          /\ elements' = injectCustomButton(container, elements)
    /\ observerQueued' = FALSE
    /\ UNCHANGED mutations
    /\ PageOff

\* the page renders a #buttons element
PageAddsContainer ==
    /\ Len(elements) < MaxContainers
    /\ elements' = Append(elements, NewContainer)
    /\ Mutated
    /\ PageOff

\* the page takes a #buttons element, with its children, out of the document
PageDetaches ==
    /\ \E e \in InDocument(elements) :
          elements' = [elements EXCEPT ![e].attached = FALSE]
    /\ Mutated
    /\ PageOff

\* the page puts a #buttons element back into the document
PageAttaches ==
    /\ \E e \in (1..Len(elements)) \ InDocument(elements) :
          elements' = [elements EXCEPT ![e].attached = TRUE]
    /\ Mutated
    /\ PageOff

\* the page removes a custom button from a #buttons element of the document
PageRemovesButton ==
    /\ \E e \in InDocument(elements) :
          /\ elements[e].buttons > 0
          /\ elements' = [elements EXCEPT ![e].buttons = @ - 1]
    /\ Mutated
    /\ PageOff

\* the page changes the document somewhere else
PageMutatesElsewhere ==
    /\ UNCHANGED elements
    /\ Mutated
    /\ PageOff

\* the MutationObserver callback: injectCustomButton; an append to a
\* container of the document is a mutation that calls it again
ObserverCallback ==
    /\ loaded
    /\ observerQueued
    /\ elements' = injectCustomButton(buttonsContainer, elements)
    /\ observerQueued' = (/\ Injects(buttonsContainer, elements)
                          /\ buttonsContainer \in InDocument(elements))
    /\ UNCHANGED <<loaded, buttonsContainer, mutations>>
    /\ PageOff

InitDom ==
    /\ variant = "part_000"
    /\ running = TRUE
    /\ channel_details = <<>>
    /\ inflight = EmptyBag
    /\ arrived = 0
    /\ last = NoRequest
    /\ responded = {}
    /\ rin = HarnessOff
    /\ rout = NotCalled
    /\ ExtensionFresh
    /\ DocumentFresh

NextDom ==
    \/ DOMContentLoaded
    \/ PageAddsContainer
    \/ PageDetaches
    \/ PageAttaches
    \/ PageRemovesButton
    \/ PageMutatesElsewhere
    \/ ObserverCallback

SpecDom == InitDom /\ [][NextDom]_vars

----------------------------------------------------------------------------
(* Properties *)

Rows(table) == {table[i] : i \in 1..Len(table)}
RowsFor(table, channelId) ==
    {i \in 1..Len(table) : table[i].yt_channel_id = channelId}

\* the request that finished last was answered (or left unanswered)
Answered == last.pc \in {"done", "hung"}

VerifiedFor(req) == PayloadName[SplitToken(req.authorization)]

\* C1: at most one ChannelRecord exists for each channelId, under any
\* interleaving of the SELECT and INSERT steps of concurrent requests
C1_AtMostOneRecordPerChannel ==
    \A i, j \in 1..Len(channel_details) :
        channel_details[i].yt_channel_id = channel_details[j].yt_channel_id
            => i = j

\* C2: when the first submission of a channel not yet stored is handled
\* alone and a second one for the same channel arrives after its response,
\* the first is answered 201, the second 200, and the table holds exactly
\* one row for the channel, created by the first caller
C2_SequentialIdempotence ==
    (last.pc = "done" /\ last.method = "POST" /\ last.channelId # null
        /\ ~last.dbFailed)
    => \A first \in last.after :
         (first.channelId = last.channelId /\ first.fresh /\ first.solo
             /\ ~first.dbFailed)
         => /\ first.status = 201
            /\ last.status = 200
            /\ last.writes = 0
            /\ Cardinality(RowsFor(channel_details, last.channelId)) = 1
            /\ \A i \in RowsFor(channel_details, last.channelId) :
                  channel_details[i].createdBy = first.user

\* a second caller, different from the first, was answered "duplicate"
C2_Witness ==
    /\ last.pc = "done" /\ last.status = 200
    /\ \E first \in last.after :
         /\ first.channelId = last.channelId /\ first.fresh /\ first.solo
         /\ first.status = 201 /\ first.user # last.user

\* C3: a POST with a credential the identity provider verifies for N and a
\* direct channel URL whose id is not stored, without storage failure, is
\* answered 201 and the row (id, N) is in the table
C3_ValidDirectSubmissionCreates ==
    (/\ Answered /\ last.method = "POST"
     /\ SplitToken(last.authorization) \in DOMAIN PayloadName
     /\ last.idp = "reachable"
     /\ Len(MatchLit(last.url, LitChannel)) > 0
     /\ MatchLit(last.url, LitChannel)[1] \notin last.idsAtArrival
     /\ last.solo /\ ~last.dbFailed)
    => /\ last.status = 201
       /\ Row(MatchLit(last.url, LitChannel)[1], VerifiedFor(last))
              \in Rows(channel_details)

\* C4: a request without an Authorization header is answered 401, in
\* every variant of the server
C4_MissingHeaderIs401 ==
    (Answered /\ last.authorization = NoHeader) => last.status = 401

\* C5: a request whose credential is missing, malformed or not verified is
\* answered 401 and makes no metadata call, no table read, no table write
C5_VerificationFailureTerminal ==
    (Answered /\ SplitToken(last.authorization) \notin DOMAIN PayloadName)
    => /\ last.status = 401
       /\ last.apiCalls = <<>>
       /\ last.reads = 0 /\ last.writes = 0 /\ ~last.dbFailed

\* C6: the history of a verified caller named N is exactly the set of the
\* rows stored at the time of the query whose createdBy is N
C6_HistoryExactlyOwn ==
    (Answered /\ last.method = "GET" /\ last.user # "")
    => /\ last.user = VerifiedFor(last)
       /\ ~last.dbFailed => last.status = 200
       /\ last.status = 200 =>
            Rows(last.rows) = {row \in Rows(last.atQuery) :
                                  row.createdBy = last.user}

\* the caller got back a row of its own
C6_Witness ==
    /\ last.pc = "done" /\ last.method = "GET" /\ last.status = 200
    /\ Len(last.rows) = 1
    /\ last.rows[1].createdBy = last.user

\* the URL has  lit<id>  at position i, <id> being n id characters that no
\* id character follows
FormAt(url, i, n, lit) ==
    /\ HasAt(url, i, lit)
    /\ n >= 1
    /\ i + Len(lit) + n - 1 <= Len(url)
    /\ \A k \in 0..(n - 1) : url[i + Len(lit) + k] \in IdChars
    /\ (i + Len(lit) + n - 1 = Len(url)
          \/ url[i + Len(lit) + n] \notin IdChars)

\* the <id> of the leftmost  lit<id>  of the URL, if there is one
FirstId(url, lit) ==
    LET Ends(i) == {n \in 1..Len(url) : FormAt(url, i, n, lit)}
        Starts == {i \in 1..Len(url) : HasAt(url, i, lit) /\ Ends(i) # {}}
    IN  {SubSeq(url, i + Len(lit), i + Len(lit) + n - 1) :
            <<i, n>> \in {p \in Starts \X (1..Len(url)) :
                /\ \A j \in Starts : p[1] <= j
                /\ p[2] \in Ends(p[1])}}

SegChannel == <<"c","h","a","n","n","e","l","/">>

\* the URL has  lit<id>  somewhere
HasForm(url, lit) ==
    \E i \in 1..Len(url) :
        /\ HasAt(url, i, lit)
        /\ i + Len(lit) <= Len(url)
        /\ url[i + Len(lit)] \in IdChars

IsChannelForm(url) == HasForm(url, LitChannel)
IsUserForm(url) == HasForm(url, LitUser) \/ HasForm(url, LitC)
IsVideoForm(url) == HasForm(url, LitWatch)

Called == rout.state = "called"

\* C7 as stated: every URL that contains  channel/<id>  resolves to <id>
\* without a call to the metadata API
C7_AnyChannelSegment ==
    Called => \A id \in FirstId(rin.url, SegChannel) :
                 /\ ~rout.threw
                 /\ rout.channelId = id
                 /\ rout.calls = <<>>

\* C7: every URL that contains  youtube.com/channel/<id>  resolves to the
\* <id> of the first such occurrence, verbatim, without a call to the
\* metadata API
C7_DirectFormVerbatim ==
    Called => \A id \in FirstId(rin.url, LitChannel) :
                 /\ ~rout.threw
                 /\ rout.channelId = id
                 /\ rout.calls = <<>>

\* a direct URL with a query after the id resolved to the id alone
C7_Witness ==
    /\ Called
    /\ rin.url = U_channelQuery
    /\ rout.channelId = <<"U","C","_","-","2">>
    /\ rout.calls = <<>>

\* C8: direct form > username form > video form: only the first form that
\* matches decides the result, and only its lookup is issued
C8_StrictPrecedence ==
    Called =>
      /\ IsChannelForm(rin.url) =>
            /\ rout.calls = <<>>
            /\ rout.channelId \in FirstId(rin.url, LitChannel)
      /\ (~IsChannelForm(rin.url) /\ IsUserForm(rin.url)) =>
            /\ Len(rout.calls) = 1
            /\ rout.calls[1].api = "channels"
            /\ KindOf(rin.chResp) = "empty" =>
                  (~rout.threw /\ rout.channelId = null)
            /\ KindOf(rin.chResp) = "items" =>
                  rout.channelId \in
                      {rin.chResp.items[k].id : k \in 1..Len(rin.chResp.items)}
      /\ (~IsChannelForm(rin.url) /\ ~IsUserForm(rin.url)
            /\ IsVideoForm(rin.url)) =>
            /\ Len(rout.calls) = 1
            /\ rout.calls[1].api = "videos"
      /\ (~IsChannelForm(rin.url) /\ ~IsUserForm(rin.url)
            /\ ~IsVideoForm(rin.url)) =>
            /\ rout.calls = <<>>
            /\ ~rout.threw /\ rout.channelId = null

\* a URL of the username form and of the video form, an empty username
\* lookup, a video the API knows: unresolved, no video lookup
C8_Witness ==
    /\ Called
    /\ IsUserForm(rin.url) /\ IsVideoForm(rin.url)
    /\ KindOf(rin.chResp) = "empty" /\ KindOf(rin.vidResp) = "items"
    /\ rout.channelId = null /\ ~rout.threw
    /\ Len(rout.calls) = 1 /\ rout.calls[1].api = "channels"

\* the response to the lookup the resolver issued
Answer == IF rout.calls[1].api = "channels" THEN rin.chResp ELSE rin.vidResp

\* C9: a lookup resolves to the first item of the collection, its id for
\* the username form, its snippet.channelId for the video form; an empty
\* collection is unresolved
C9_FirstItemDecides ==
    (Called /\ Len(rout.calls) = 1 /\ Answer.kind = "ok") =>
      /\ ~rout.threw
      /\ rout.channelId =
           IF Answer.items = <<>> THEN null
           ELSE IF rout.calls[1].api = "channels"
                THEN Head(Answer.items).id
                ELSE Head(Answer.items).snippet.channelId

\* a video lookup answered with two different items took the first one's
\* snippet.channelId
C9_Witness ==
    /\ Called
    /\ Len(rout.calls) = 1 /\ rout.calls[1].api = "videos"
    /\ Len(rin.vidResp.items) = 2
    /\ rin.vidResp.items[1] # rin.vidResp.items[2]
    /\ rout.channelId = rin.vidResp.items[1].snippet.channelId

\* the URL of the request is unresolved: no form matches it, or the lookup
\* of its form returned an empty collection
Unresolved(req) ==
    \/ req.lookup = "empty"
    \/ /\ req.lookup = "none"
       /\ ~IsChannelForm(req.url) /\ ~IsUserForm(req.url)
       /\ ~IsVideoForm(req.url)

\* C10: an authenticated POST whose URL is unresolved is answered 400 and
\* makes neither the SELECT nor the INSERT
C10_UnresolvedIs400 ==
    (last.pc = "done" /\ last.method = "POST" /\ last.user # ""
        /\ Unresolved(last))
    => /\ last.status = 400
       /\ last.reads = 0 /\ last.writes = 0 /\ ~last.dbFailed
       /\ last.channelId = null

\* a username URL whose lookup came back empty was answered 400
C10_Witness ==
    /\ last.pc = "done" /\ last.method = "POST" /\ last.user # ""
    /\ last.lookup = "empty"
    /\ last.status = 400

\* the step finishes a request: last' is that request
Finishing == BagCardinality(inflight') < BagCardinality(inflight)

C12_IdpFailureIs500 ==
    (Answered /\ last.idpCalls = 1 /\ last.idp = "neterr")
    => last.status = 500

\* C13: a request whose SELECT or INSERT fails is answered 500, and the
\* step in which it fails leaves the table as it was
C13_StorageFailureIs500 ==
    /\ [](Answered /\ last.dbFailed => last.status = 500 /\ last.writes = 0)
    /\ [][(Finishing /\ last'.dbFailed) =>
             channel_details' = channel_details]_vars

\* an INSERT failed after the SELECT of the same request had succeeded
C13_Witness ==
    /\ last.pc = "done" /\ last.dbFailed /\ last.status = 500
    /\ last.trace = <<"verify", "resolve", "exists", "insert">>

\* C14: a POST whose SELECT finds a row for its channel is answered 200
\* "Duplicate channel ID found." and the step leaves the whole table as it
\* was
C14_DuplicateLeavesTable ==
    /\ []((Answered /\ last.method = "POST" /\ last.checked
              /\ last.channelId \in last.idsAtExists)
          => /\ last.status = 200
             /\ last.message = "Duplicate channel ID found."
             /\ last.writes = 0
             /\ last.trace = <<"verify", "resolve", "exists">>)
    /\ [][(Finishing /\ last'.method = "POST" /\ last'.status = 200) =>
             channel_details' = channel_details]_vars

\* a caller was told "duplicate" for a channel another caller had stored,
\* and the row still names that other caller
C14_Witness ==
    /\ last.pc = "done" /\ last.method = "POST" /\ last.status = 200
    /\ Len(channel_details) = 1
    /\ channel_details[1].yt_channel_id = last.channelId
    /\ channel_details[1].createdBy # last.user

\* C15: rows are never updated or deleted: every step keeps the rows there
\* are, and the table changes only by the one row a POST answered 201 adds
C15_RecordsOnlyAdded ==
    [][/\ Len(channel_details') >= Len(channel_details)
       /\ \A i \in 1..Len(channel_details) :
             channel_details'[i] = channel_details[i]
       /\ channel_details' # channel_details =>
             /\ Len(channel_details') = Len(channel_details) + 1
             /\ Finishing
             /\ last'.method = "POST" /\ last'.status = 201
             /\ channel_details'[Len(channel_details')] =
                    Row(last'.channelId, last'.user)]_vars

\* the table grew twice
C15_Witness ==
    /\ Len(channel_details) = 2
    /\ last.status = 201
    /\ channel_details[2] = Row(last.channelId, last.user)

Documented(method) ==
    IF method = "POST" THEN {200, 201, 400, 401, 500} ELSE {200, 401, 500}

\* C16: every request that is over was answered, with one of the statuses
\* documented for its route
C16_EveryRequestAnswered ==
    Answered => /\ last.pc = "done"
                /\ last.status \in Documented(last.method)

\* C17: the process is still serving after every fault of a request
C17_ProcessKeepsServing == running

StepOrder == <<"verify", "resolve", "exists", "insert">>

IsPrefix(t, u) == Len(t) <= Len(u) /\ SubSeq(u, 1, Len(t)) = t

\* C18: the steps of a POST run in the order verify, resolve, exists,
\* insert, and the INSERT is issued only after the SELECT of the same
\* request found no row for the same channel
C18_StepsInOrder ==
    \A req \in InFlight \cup {last} :
        req.method = "POST" =>
          /\ IsPrefix(req.trace, StepOrder)
          /\ req.pc = "resolve" => req.trace = <<"verify">>
          /\ req.pc = "exists" => req.trace = <<"verify", "resolve">>
          /\ req.pc = "insert" => req.trace = <<"verify", "resolve", "exists">>
          /\ (req.pc = "insert" \/ req.writes = 1 \/ Len(req.trace) = 4) =>
                /\ req.user # ""
                /\ req.channelId # null
                /\ req.checked
                /\ req.channelId \notin req.idsAtExists

\* a POST went through the four steps and was answered 201
C18_Witness ==
    /\ last.pc = "done" /\ last.method = "POST" /\ last.status = 201
    /\ last.trace = StepOrder

\* C19: for each channel at most one request is answered 201
C19_AtMostOne201PerChannel ==
    \A s1, s2 \in responded :
        (s1.status = 201 /\ s2.status = 201 /\ s1.channelId = s2.channelId)
            => s1 = s2

----------------------------------------------------------------------------
(* The extension *)

FetchesOf(i) == {k \in 1..Len(fetches) : fetches[k].click = i}
AlertsOf(i) == {k \in 1..Len(alerts) : alerts[k].click = i}
CallbackRan(c) == c.pc \in {"fetching", "done"}

\* C20: the extension never sends POST /checkChannel without a bearer token:
\* every request fetch() has issued belongs to a click whose callback has
\* run, is the only request of that click, and carries "Bearer" followed by
\* the token string the background returned for that click, which is the
\* token the background held when it answered; a click whose background
\* held null or undefined when it answered issues no request and shows only
\* the alert 'Authorization failed. Please sign in.'
C20_NoPostWithoutToken ==
    /\ \A k \in 1..Len(fetches) :
          LET f == fetches[k]
              c == clicks[f.click]
          IN  /\ f.click \in 1..Len(clicks)
              /\ CallbackRan(c)
              /\ FetchesOf(f.click) = {k}
              /\ f.method = "POST" /\ f.path = "/checkChannel"
              /\ f.url = c.url
              /\ c.stored = c.response.token
              /\ c.response.token.t = "string"
              /\ c.response.token.s \in GrantedTokens
              /\ f.authorization = <<"Bearer", c.response.token.s>>
    /\ \A i \in 1..Len(clicks) :
          (CallbackRan(clicks[i]) /\ clicks[i].stored \in {JsNull, JsUndefined})
              => /\ FetchesOf(i) = {}
                 /\ clicks[i].pc = "done"
                 /\ Cardinality(AlertsOf(i)) = 1
                 /\ \A k \in AlertsOf(i) : alerts[k].text = AuthFailed

C20_Witness ==
    /\ Len(clicks) = 2
    /\ clicks[1].pc = "done" /\ clicks[1].stored = JsNull
    /\ FetchesOf(1) = {} /\ AlertsOf(1) # {}
    /\ clicks[2].pc = "fetching"
    /\ Len(fetches) = 1
    /\ fetches[1].authorization = <<"Bearer", "tokAlice">>
    /\ userToken = JsNull

----------------------------------------------------------------------------
(* The page *)

RECURSIVE ButtonsIn(_, _)
\* custom buttons in the document among the first n #buttons elements
ButtonsIn(els, n) ==
    IF n = 0 THEN 0
    ELSE ButtonsIn(els, n - 1)
         + (IF els[n].attached THEN els[n].buttons ELSE 0)

\* the observer has run injectCustomButton after the last mutation
ObserverIdle == loaded /\ ~observerQueued

\* C21: button injection is idempotent and re-arming: the document never
\* holds more than one #custom-extension-button, and once the observer has
\* run injectCustomButton after the last mutation, a document with a
\* #buttons container holds the custom button
C21_InjectionIdempotentRearming ==
    /\ ButtonsIn(elements, Len(elements)) <= 1
    /\ (ObserverIdle /\ InDocument(elements) # {}) => HasCustomButton(elements)

====
